---- MODULE Spec2Model ----
(***************************************************************************)
(* Model of the DistHPO_rpv notebook: distributed random-search            *)
(* hyper-parameter optimisation over an ipyparallel load-balanced view.    *)
(*                                                                         *)
(* The notebook kernel runs the cells in order (dispatch loop, result      *)
(* collection, score extraction, best / worst / top-5 selection,           *)
(* checkpoint loading); the engines of the cluster run the submitted       *)
(* build_and_train jobs concurrently with it.  The cells that only print   *)
(* or plot (readiness count, stdout, timing histogram) change no state and *)
(* are left out; ar.ready() is the operator Ready.                         *)
(*                                                                         *)
(* Strings are sequences of one-character strings, so that '%i' formatting *)
(* and os.path.join are computed rather than assumed.  Validation          *)
(* accuracies are integers (the scenario values are percentages).  Only    *)
(* the 'val_acc' entry of a training history is kept, the other metrics    *)
(* are read by the plotting code only.  A variable the kernel has not      *)
(* assigned yet is <<>>, an assigned one is <<value>>.                     *)
(***************************************************************************)
EXTENDS Integers, Sequences, FiniteSets, TLC

VARIABLES
    n_hpo_trials,     \* number of search points
    n_workers,        \* engines of the cluster (len(c.ids))
    n_epochs,         \* epochs of every training run
    checkpoint_dir,   \* directory of the checkpoints
    pc,               \* the cell (or loop) the kernel is executing
    ihp,              \* dispatch loop counter
    tasks,            \* tasks known to the scheduler, by message id
    results,          \* list of AsyncResult handles (message ids)
    cpos,             \* number of handles the comprehension has taken
    waiting,          \* TRUE while the kernel is inside ar.get()
    acc,              \* list under construction by the comprehension
    histories,
    last_scores,
    best_scores,
    i,
    best_trial,       \* trial printed by the 'best' cell
    worst_trial,      \* trial printed by the 'worst' cell
    model_file,
    error             \* exception that halted the run, "none" otherwise

vars == <<n_hpo_trials, n_workers, n_epochs, checkpoint_dir, pc, ihp, tasks, results,
          cpos, waiting, acc, histories, last_scores,
          best_scores, i, best_trial, worst_trial, model_file, error>>

\* ------------------------------------------------------------------ bounds
MaxTrials == 2
MaxWorkers == 2
MaxEpochs == 2
MaxScore == 1
MaxPathTrials == 20

\* --------------------------------------------------------------- constants
JobId == 24194075
TopK == 5

\* ----------------------------------------------------------------- strings
Str_model == <<"m", "o", "d", "e", "l", "_">>
Str_h5 == <<".", "h", "5">>
Str_rpv == <<"c", "o", "r", "i", "-", "i", "n", "t", "e", "r", "a", "c", "t",
             "i", "v", "e", "-", "d", "l", "/", "r", "p", "v", "_", "h", "p",
             "o", "_">>

DigitChar(d) == CASE d = 0 -> "0" [] d = 1 -> "1" [] d = 2 -> "2"
                  [] d = 3 -> "3" [] d = 4 -> "4" [] d = 5 -> "5"
                  [] d = 6 -> "6" [] d = 7 -> "7" [] d = 8 -> "8"
                  [] d = 9 -> "9"

\* a formatter that keeps the last digit only
FormatIntLastDigit(n) == <<DigitChar(n % 10)>>

\* '%i' % n for a non-negative integer n
RECURSIVE FormatInt(_)
FormatInt(n) ==
    IF n < 10 THEN <<DigitChar(n)>>
    ELSE FormatInt(n \div 10) \o <<DigitChar(n % 10)>>

\* os.path.join(a, b)
PathJoin(a, b) ==
    IF Len(b) > 0 /\ b[1] = "/" THEN b
    ELSE IF Len(a) = 0 \/ a[Len(a)] = "/" THEN a \o b
    ELSE a \o <<"/">> \o b

\* values of os.environ['SCRATCH']
Scratch == <<"/", "s">>

ScratchDirs == { Scratch, <<"/", "s", "/">>, <<"s">>, <<>> }

CheckpointDir(scratch) == PathJoin(scratch, Str_rpv \o FormatInt(JobId))

CheckpointFile(dir, k) == PathJoin(dir, Str_model \o FormatInt(k) \o Str_h5)

\* ------------------------------------------------------------- histories
Scores == 0..MaxScore

\* the histories a training run of e epochs can return: one value per epoch
Histories(e) == { [val_acc |-> v] : v \in [1..e -> Scores] }

\* ------------------------------------------------------------ numpy, lists
Some(x) == <<x>>

Max(s) == CHOOSE m \in { s[k] : k \in 1..Len(s) } : \A k \in 1..Len(s) : s[k] <= m

Min(s) == CHOOSE m \in { s[k] : k \in 1..Len(s) } : \A k \in 1..Len(s) : m <= s[k]

\* 0-based position of the first occurrence of v in s
FirstIndex(s, v) ==
    (CHOOSE k \in 1..Len(s) : s[k] = v /\ \A j \in 1..(k - 1) : s[j] # v) - 1

\* ndarray.argmax(), ndarray.argmin() of a non-empty array
ArgMax(s) == FirstIndex(s, Max(s))

ArgMin(s) == FirstIndex(s, Min(s))

\* [h['val_acc'][-1] for h in hs]
LastScores(hs) == [k \in 1..Len(hs) |-> hs[k].val_acc[Len(hs[k].val_acc)]]

\* a score extraction that takes the last epoch for both arrays
BestScoresFromLast(hs) == LastScores(hs)

\* [max(h['val_acc']) for h in hs]
BestScores(hs) == [k \in 1..Len(hs) |-> Max(hs[k].val_acc)]

\* the values the loop variable of "for i in s.argsort()[::-1][:TopK]" can
\* hold after the loop: the positions (0-based) that can stand last among the
\* TopK largest (the order of equal scores is the sort's choice)
TopLast(s) ==
    LET n == Len(s)
        m == IF n < TopK THEN n ELSE TopK
    IN  { k - 1 : k \in { k \in 1..n :
            /\ Cardinality({ j \in 1..n : s[j] > s[k] }) < m
            /\ Cardinality({ j \in 1..n : s[j] >= s[k] }) >= m } }

\* ---------------------------------------------------------------- cluster
\* AsyncResult.ready() of the task with message id t
Ready(t) == tasks[t].status \in {"done", "failed"}

Running == { t \in 1..Len(tasks) : tasks[t].status = "running" }

\* an idle engine takes a queued task
StartJob(t) ==
    /\ tasks[t].status = "queued"
    /\ Cardinality(Running) < n_workers
    /\ tasks' = [tasks EXCEPT ![t].status = "running"]
    /\ UNCHANGED <<n_hpo_trials, n_workers, n_epochs, checkpoint_dir, pc, ihp, results,
                   cpos, waiting, acc, histories,
                   last_scores, best_scores, i, best_trial, worst_trial,
                   model_file, error>>

\* build_and_train returns history.history
FinishJob(t, h) ==
    /\ tasks[t].status = "running"
    /\ tasks' = [tasks EXCEPT ![t].status = "done", ![t].ret = Some(h)]
    /\ UNCHANGED <<n_hpo_trials, n_workers, n_epochs, checkpoint_dir, pc, ihp, results,
                   cpos, waiting, acc, histories,
                   last_scores, best_scores, i, best_trial, worst_trial,
                   model_file, error>>

\* build_and_train raises (missing file, training error)
FailJob(t) ==
    /\ tasks[t].status = "running"
    /\ tasks' = [tasks EXCEPT ![t].status = "failed"]
    /\ UNCHANGED <<n_hpo_trials, n_workers, n_epochs, checkpoint_dir, pc, ihp, results,
                   cpos, waiting, acc, histories,
                   last_scores, best_scores, i, best_trial, worst_trial,
                   model_file, error>>

\* ----------------------------------------------------------- dispatch loop
\* lv.apply that returns only once the submitted job has finished
SubmitBlocking ==
    /\ pc = "dispatch"
    /\ ihp < n_hpo_trials
    /\ \A t \in 1..Len(tasks) : Ready(t)
    /\ tasks' = Append(tasks, [hp |-> ihp,
                               checkpoint_file |-> CheckpointFile(checkpoint_dir, ihp),
                               status |-> "queued",
                               ret |-> <<>>])
    /\ results' = Append(results, Len(tasks) + 1)
    /\ ihp' = ihp + 1
    /\ UNCHANGED <<n_hpo_trials, n_workers, n_epochs, checkpoint_dir, pc,
                   cpos, waiting, acc, histories,
                   last_scores, best_scores, i, best_trial, worst_trial,
                   model_file, error>>

\* a submission that drops the handle of every second job
SubmitDropHandle ==
    /\ pc = "dispatch"
    /\ ihp < n_hpo_trials
    /\ tasks' = Append(tasks, [hp |-> ihp,
                               checkpoint_file |-> CheckpointFile(checkpoint_dir, ihp),
                               status |-> "queued",
                               ret |-> <<>>])
    /\ results' = IF ihp % 2 = 1 THEN results ELSE Append(results, Len(tasks) + 1)
    /\ ihp' = ihp + 1
    /\ UNCHANGED <<n_hpo_trials, n_workers, n_epochs, checkpoint_dir, pc,
                   cpos, waiting, acc, histories,
                   last_scores, best_scores, i, best_trial, worst_trial,
                   model_file, error>>

\* one iteration of "for ihp in range(n_hpo_trials)"
Submit ==
    /\ pc = "dispatch"
    /\ ihp < n_hpo_trials
    /\ tasks' = Append(tasks, [hp |-> ihp,
                               checkpoint_file |-> CheckpointFile(checkpoint_dir, ihp),
                               status |-> "queued",
                               ret |-> <<>>])
    /\ results' = Append(results, Len(tasks) + 1)
    /\ ihp' = ihp + 1
    /\ UNCHANGED <<n_hpo_trials, n_workers, n_epochs, checkpoint_dir, pc,
                   cpos, waiting, acc, histories,
                   last_scores, best_scores, i, best_trial, worst_trial,
                   model_file, error>>

\* the range is exhausted
EndDispatch ==
    /\ pc = "dispatch"
    /\ ihp = n_hpo_trials
    /\ pc' = "collect"
    /\ UNCHANGED <<n_hpo_trials, n_workers, n_epochs, checkpoint_dir, ihp, tasks,
                   results, cpos, waiting, acc, histories,
                   last_scores, best_scores, i, best_trial, worst_trial,
                   model_file, error>>

\* ------------------------------------------------------- result collection
\* histories = [ar.get() for ar in results]: the comprehension takes the next
\* handle and calls ar.get() on it
CallGet ==
    /\ pc = "collect"
    /\ ~waiting
    /\ cpos < Len(results)
    /\ cpos' = cpos + 1
    /\ waiting' = TRUE
    /\ UNCHANGED <<n_hpo_trials, n_workers, n_epochs, checkpoint_dir, pc, ihp, tasks,
                   results, acc, histories, last_scores,
                   best_scores, i, best_trial, worst_trial, model_file, error>>

\* a collection that puts each fetched history in front of the list
GetReturnPrepend ==
    /\ pc = "collect"
    /\ waiting
    /\ tasks[results[cpos]].status = "done"
    /\ acc' = <<tasks[results[cpos]].ret[1]>> \o acc
    /\ waiting' = FALSE
    /\ UNCHANGED <<n_hpo_trials, n_workers, n_epochs, checkpoint_dir, pc, ihp, tasks,
                   results, cpos, histories, last_scores,
                   best_scores, i, best_trial, worst_trial, model_file, error>>

\* a fetch that gives up on a handle that is not ready and goes on
GetReturnSkipPending ==
    /\ pc = "collect"
    /\ waiting
    /\ tasks[results[cpos]].status # "failed"
    /\ acc' = IF tasks[results[cpos]].status = "done"
              THEN Append(acc, tasks[results[cpos]].ret[1])
              ELSE acc
    /\ waiting' = FALSE
    /\ UNCHANGED <<n_hpo_trials, n_workers, n_epochs, checkpoint_dir, pc, ihp, tasks,
                   results, cpos, histories, last_scores,
                   best_scores, i, best_trial, worst_trial, model_file, error>>

\* ar.get() returns the result of a job that finished
GetReturn ==
    /\ pc = "collect"
    /\ waiting
    /\ tasks[results[cpos]].status = "done"
    /\ acc' = Append(acc, tasks[results[cpos]].ret[1])
    /\ waiting' = FALSE
    /\ UNCHANGED <<n_hpo_trials, n_workers, n_epochs, checkpoint_dir, pc, ihp, tasks,
                   results, cpos, histories, last_scores,
                   best_scores, i, best_trial, worst_trial, model_file, error>>

\* a fetch that traps the remote error and goes on with the next handle
GetRaiseTrapped ==
    /\ pc = "collect"
    /\ waiting
    /\ tasks[results[cpos]].status = "failed"
    /\ waiting' = FALSE
    /\ UNCHANGED <<n_hpo_trials, n_workers, n_epochs, checkpoint_dir, pc, ihp, tasks,
                   results, cpos, acc, histories,
                   last_scores, best_scores, i, best_trial, worst_trial,
                   model_file, error>>

\* ar.get() re-raises the error of a job that failed; nothing traps it
GetRaise ==
    /\ pc = "collect"
    /\ waiting
    /\ tasks[results[cpos]].status = "failed"
    /\ waiting' = FALSE
    /\ pc' = "halted"
    /\ error' = "RemoteError"
    /\ UNCHANGED <<n_hpo_trials, n_workers, n_epochs, checkpoint_dir, ihp, tasks,
                   results, cpos, acc, histories,
                   last_scores, best_scores, i, best_trial, worst_trial,
                   model_file>>

\* the comprehension is exhausted and its list is bound to histories
AssignHistories ==
    /\ pc = "collect"
    /\ ~waiting
    /\ cpos = Len(results)
    /\ histories' = Some(acc)
    /\ pc' = "scores"
    /\ UNCHANGED <<n_hpo_trials, n_workers, n_epochs, checkpoint_dir, ihp, tasks,
                   results, cpos, waiting, acc, last_scores,
                   best_scores, i, best_trial, worst_trial, model_file, error>>

\* ---------------------------------------------------------- model selection
\* scores cell
ComputeScores ==
    /\ pc = "scores"
    /\ last_scores' = Some(LastScores(histories[1]))
    /\ best_scores' = Some(BestScores(histories[1]))
    /\ pc' = "best"
    /\ UNCHANGED <<n_hpo_trials, n_workers, n_epochs, checkpoint_dir, ihp, tasks,
                   results, cpos, waiting, acc, histories,
                   i, best_trial, worst_trial, model_file, error>>

\* i = best_scores.argmax() and the report; argmax of an empty array raises
FindBest ==
    /\ pc = "best"
    /\ IF Len(best_scores[1]) = 0
       THEN /\ pc' = "halted"
            /\ error' = "ValueError"
            /\ UNCHANGED <<i, best_trial>>
       ELSE /\ i' = Some(ArgMax(best_scores[1]))
            /\ best_trial' = i'
            /\ pc' = "worst"
            /\ UNCHANGED error
    /\ UNCHANGED <<n_hpo_trials, n_workers, n_epochs, checkpoint_dir, ihp, tasks,
                   results, cpos, waiting, acc, histories,
                   last_scores, best_scores, worst_trial, model_file>>

\* i = best_scores.argmin() and the report
FindWorst ==
    /\ pc = "worst"
    /\ i' = Some(ArgMin(best_scores[1]))
    /\ worst_trial' = i'
    /\ pc' = "top"
    /\ UNCHANGED <<n_hpo_trials, n_workers, n_epochs, checkpoint_dir, ihp, tasks,
                   results, cpos, waiting, acc, histories,
                   last_scores, best_scores, best_trial, model_file, error>>

\* for i in best_scores.argsort()[::-1][:5]: the loop leaves i at its last value
TopFive ==
    /\ pc = "top"
    /\ \E k \in TopLast(best_scores[1]) : i' = Some(k)
    /\ pc' = "evaluate"
    /\ UNCHANGED <<n_hpo_trials, n_workers, n_epochs, checkpoint_dir, ihp, tasks,
                   results, cpos, waiting, acc, histories,
                   last_scores, best_scores, best_trial, worst_trial,
                   model_file, error>>

\* ---------------------------------------------------------------- evaluator
\* an evaluator that keeps the i the previous cell left behind
LoadModelStaleIndex ==
    /\ pc = "evaluate"
    /\ i' = i
    /\ model_file' = Some(CheckpointFile(checkpoint_dir, i'[1]))
    /\ pc' = "done"
    /\ UNCHANGED <<n_hpo_trials, n_workers, n_epochs, checkpoint_dir, ihp, tasks,
                   results, cpos, waiting, acc, histories,
                   last_scores, best_scores, best_trial, worst_trial, error>>

\* i = best_scores.argmax(); model_file = os.path.join(checkpoint_dir, 'model_%i.h5' % i)
LoadModel ==
    /\ pc = "evaluate"
    /\ i' = Some(ArgMax(best_scores[1]))
    /\ model_file' = Some(CheckpointFile(checkpoint_dir, i'[1]))
    /\ pc' = "done"
    /\ UNCHANGED <<n_hpo_trials, n_workers, n_epochs, checkpoint_dir, ihp, tasks,
                   results, cpos, waiting, acc, histories,
                   last_scores, best_scores, best_trial, worst_trial, error>>

\* ---------------------------------------------------------- specifications
Init ==
    /\ n_hpo_trials \in 0..MaxTrials
    /\ n_workers \in 0..MaxWorkers
    /\ n_epochs \in 1..MaxEpochs
    /\ checkpoint_dir = CheckpointDir(Scratch)
    /\ pc = "dispatch"
    /\ ihp = 0
    /\ tasks = <<>>
    /\ results = <<>>
    /\ cpos = 0
    /\ waiting = FALSE
    /\ acc = <<>>
    /\ histories = <<>>
    /\ last_scores = <<>>
    /\ best_scores = <<>>
    /\ i = <<>>
    /\ best_trial = <<>>
    /\ worst_trial = <<>>
    /\ model_file = <<>>
    /\ error = "none"

Engine ==
    \E t \in 1..Len(tasks) :
        \/ StartJob(t)
        \/ \E h \in Histories(n_epochs) : FinishJob(t, h)
        \/ FailJob(t)

Kernel ==
    \/ Submit
    \/ EndDispatch
    \/ CallGet
    \/ GetReturn
    \/ GetRaise
    \/ AssignHistories
    \/ ComputeScores
    \/ FindBest
    \/ FindWorst
    \/ TopFive
    \/ LoadModel

Next == Engine \/ Kernel

Spec == Init /\ [][Next]_vars

\* the kernel runs the cell it is in whenever that cell can take a step; the
\* engines are under no obligation (a job may hang)
KernelSpec == Spec /\ WF_vars(Kernel)

\* the dispatch loop alone, for trial counts with several digits and for
\* every form of the scratch directory; no engine is attached
PathInit ==
    /\ n_hpo_trials \in 0..MaxPathTrials
    /\ n_workers = 0
    /\ n_epochs = 1
    /\ checkpoint_dir \in { CheckpointDir(d) : d \in ScratchDirs }
    /\ pc = "dispatch"
    /\ ihp = 0
    /\ tasks = <<>>
    /\ results = <<>>
    /\ cpos = 0
    /\ waiting = FALSE
    /\ acc = <<>>
    /\ histories = <<>>
    /\ last_scores = <<>>
    /\ best_scores = <<>>
    /\ i = <<>>
    /\ best_trial = <<>>
    /\ worst_trial = <<>>
    /\ model_file = <<>>
    /\ error = "none"

PathNext == Submit \/ EndDispatch

PathSpec == PathInit /\ [][PathNext]_vars

\* the selection cells alone, started from a given list of histories
Scenario ==
    << [val_acc |-> <<50, 60>>], [val_acc |-> <<50, 90>>],
       [val_acc |-> <<50, 55>>], [val_acc |-> <<50, 70>>] >>

HistoryLists(e) == UNION { [1..n -> Histories(e)] : n \in 0..(MaxTrials + 1) }

SelInit ==
    /\ n_epochs \in 1..MaxEpochs
    /\ histories \in { Some(hs) : hs \in HistoryLists(n_epochs) \cup {Scenario} }
    /\ n_hpo_trials = Len(histories[1])
    /\ n_workers = 0
    /\ checkpoint_dir = CheckpointDir(Scratch)
    /\ pc = "scores"
    /\ ihp = n_hpo_trials
    /\ tasks = <<>>
    /\ results = <<>>
    /\ cpos = 0
    /\ waiting = FALSE
    /\ acc = histories[1]
    /\ last_scores = <<>>
    /\ best_scores = <<>>
    /\ i = <<>>
    /\ best_trial = <<>>
    /\ worst_trial = <<>>
    /\ model_file = <<>>
    /\ error = "none"

SelNext == ComputeScores \/ FindBest \/ FindWorst \/ TopFive \/ LoadModel

SelSpec == SelInit /\ [][SelNext]_vars

\* ================================================================= claims
\* the task that was submitted for trial k (0-based)
TaskOf(k) == CHOOSE t \in 1..Len(tasks) : tasks[t].hp = k

Collected == histories # <<>>

\* C1: when the collection step has finished, histories[i] is the history
\* returned by the job that was submitted for trial i, for every trial i,
\* whatever the order in which the engines completed the jobs.
C1_IndexPreservingFanIn ==
    Collected =>
        /\ Len(histories[1]) = n_hpo_trials
        /\ \A k \in 1..n_hpo_trials :
              /\ \E t \in 1..Len(tasks) : tasks[t].hp = k - 1
              /\ tasks[TaskOf(k - 1)].ret = Some(histories[1][k])

C1_Witness ==
    /\ Collected
    /\ n_hpo_trials >= 2
    /\ histories[1][1] # histories[1][2]

\* C2: during and after the dispatch loop the number of handles in results
\* equals the number of jobs submitted so far, it is n_hpo_trials once the loop
\* has ended, and results[i] is the handle of the submission for trial i.
C2_HandleCount ==
    /\ Len(results) = Len(tasks)
    /\ pc = "dispatch" => Len(results) = ihp
    /\ pc # "dispatch" => Len(results) = n_hpo_trials
    /\ \A k \in 1..Len(results) :
          /\ results[k] \in 1..Len(tasks)
          /\ tasks[results[k]].hp = k - 1

C2_Witness ==
    /\ pc = "collect"
    /\ n_hpo_trials >= 2
    /\ Len(results) = n_hpo_trials

\* C3: the checkpoint paths passed to the submitted jobs are pairwise
\* distinct, and trial k gets <checkpoint_dir>/model_k.h5.
C3_CheckpointPathsDistinct ==
    /\ \A t, u \in 1..Len(tasks) :
          t # u => tasks[t].checkpoint_file # tasks[u].checkpoint_file
    /\ \A t \in 1..Len(tasks) :
          LET f == tasks[t].checkpoint_file
              d == IF checkpoint_dir # <<>> /\ checkpoint_dir[Len(checkpoint_dir)] = "/"
                   THEN checkpoint_dir ELSE checkpoint_dir \o <<"/">>
          IN  /\ SubSeq(f, 1, Len(d)) = d
              /\ SubSeq(f, Len(d) + 1, Len(d) + 6) = Str_model
              /\ SubSeq(f, Len(f) - 2, Len(f)) = Str_h5
              /\ Len(f) = Len(d) + 9 + (IF tasks[t].hp < 10 THEN 1 ELSE 2)

C3_Witness ==
    /\ pc = "collect"
    /\ Len(tasks) > 10

\* C4: the dispatch loop never waits for a job: it submits all n_hpo_trials
\* jobs in generation order and terminates, also in the runs where no engine
\* ever starts or completes a job and whatever the number of engines.
C4_DispatchTerminates ==
    <>(/\ pc # "dispatch"
       /\ Len(results) = n_hpo_trials
       /\ \A k \in 1..n_hpo_trials : tasks[results[k]].hp = k - 1)

C4_Witness ==
    /\ pc # "dispatch"
    /\ n_hpo_trials >= 2
    /\ Len(results) = n_hpo_trials
    /\ \A t \in 1..Len(tasks) : tasks[t].status = "queued"

\* C5: the result of a handle is fetched only after every earlier handle
\* has completed; while the job of the awaited handle is not complete the
\* collection stays at that handle and takes no later result; and once every
\* submitted job has completed successfully the collection terminates.
AllSucceeded ==
    /\ Len(tasks) = n_hpo_trials
    /\ \A t \in 1..Len(tasks) : tasks[t].status = "done"

C5_HeadOfLine ==
    /\ [](/\ Len(acc) <= cpos
          /\ waiting => Len(acc) = cpos - 1
          /\ \A k \in 1..Len(acc) : tasks[results[k]].status = "done")
    /\ [][(pc = "collect" /\ waiting /\ ~Ready(results[cpos])) =>
             (pc' = "collect" /\ waiting' /\ cpos' = cpos /\ acc' = acc
                /\ histories' = histories)]_vars
    /\ (AllSucceeded ~> Collected)

C5_Witness ==
    /\ pc = "collect"
    /\ waiting
    /\ cpos = 1
    /\ ~Ready(results[1])
    /\ Len(results) >= 2
    /\ tasks[results[2]].status = "done"

\* C6: if a job failed, the collection ends in the error raised at the first
\* failed handle in submission order, no fetch is issued for a later handle,
\* histories is not assigned, and results is left as it was.
C6_FailureAborts ==
    /\ [](error = "RemoteError" =>
            /\ pc = "halted"
            /\ cpos \in 1..Len(results)
            /\ tasks[results[cpos]].status = "failed"
            /\ \A k \in 1..(cpos - 1) : tasks[results[k]].status = "done"
            /\ ~Collected
            /\ Len(results) = n_hpo_trials)
    /\ [](Collected => \A t \in 1..Len(tasks) : tasks[t].status = "done")
    /\ [][(pc \in {"collect", "halted"}) => (results' = results)]_vars
    /\ [][(pc = "halted") => (cpos' = cpos /\ histories' = histories /\ pc' = pc)]_vars

C6_Witness ==
    /\ error = "RemoteError"
    /\ cpos = 1
    /\ Len(results) >= 2
    /\ tasks[results[2]].status = "done"

\* C7: the trial reported as best has a maximum-over-epochs val_acc at least
\* that of every trial, the one reported as worst has one at most that of
\* every trial; one history gives best = worst = trial 0; the four sequences
\* [0.5,0.6], [0.5,0.9], [0.5,0.55], [0.5,0.7] give best 1 and worst 2.
ValAcc(k) == histories[1][k + 1].val_acc

C7_ArgMaxArgMin ==
    /\ best_trial # <<>> =>
          /\ best_trial[1] \in 0..(Len(histories[1]) - 1)
          /\ \A k \in 0..(Len(histories[1]) - 1) :
                \A e \in 1..Len(ValAcc(k)) :
                   \E f \in 1..Len(ValAcc(best_trial[1])) :
                      ValAcc(k)[e] <= ValAcc(best_trial[1])[f]
          /\ Len(histories[1]) = 1 => best_trial[1] = 0
          /\ histories[1] = Scenario => best_trial[1] = 1
    /\ worst_trial # <<>> =>
          /\ worst_trial[1] \in 0..(Len(histories[1]) - 1)
          /\ \A k \in 0..(Len(histories[1]) - 1) :
                \E e \in 1..Len(ValAcc(k)) :
                   \A f \in 1..Len(ValAcc(worst_trial[1])) :
                      ValAcc(worst_trial[1])[f] <= ValAcc(k)[e]
          /\ Len(histories[1]) = 1 => worst_trial[1] = 0
          /\ histories[1] = Scenario => worst_trial[1] = 2

C7_Witness ==
    /\ histories = Some(Scenario)
    /\ best_trial = Some(1)
    /\ worst_trial = Some(2)

\* C8: the collection step never calls ar.get() on a handle whose ar.ready()
\* is false at that moment.
C8_FetchOnlyReady ==
    [][(pc = "collect" /\ cpos' = cpos + 1) => Ready(results[cpos'])]_vars

\* C9: the trial reported as best maximises, and the one reported as worst
\* minimises, the val_acc of the last epoch.
FinalAcc(k) == ValAcc(k)[Len(ValAcc(k))]

C9_BestByFinalAccuracy ==
    /\ best_trial # <<>> =>
          \A k \in 0..(Len(histories[1]) - 1) : FinalAcc(k) <= FinalAcc(best_trial[1])
    /\ worst_trial # <<>> =>
          \A k \in 0..(Len(histories[1]) - 1) : FinalAcc(worst_trial[1]) <= FinalAcc(k)

\* C10: the checkpoint file the evaluator loads is the path the dispatch
\* loop passed to the job of the trial reported as best, and that trial is a
\* valid index 0 <= i < n_hpo_trials.
C10_SelectedPathConsistent ==
    model_file # <<>> =>
        /\ AllSucceeded
        /\ best_trial # <<>>
        /\ best_trial[1] \in 0..(n_hpo_trials - 1)
        /\ i = best_trial
        /\ \E t \in 1..Len(tasks) :
              /\ tasks[t].hp = best_trial[1]
              /\ tasks[t].checkpoint_file = model_file[1]

C10_Witness ==
    /\ model_file # <<>>
    /\ n_hpo_trials >= 2
    /\ best_trial = Some(1)
    /\ worst_trial = Some(0)

====
